---- MODULE Spec2Model ----
(***************************************************************************)
(* Model of the two notebooks of learning-tensorflow.                      *)
(*                                                                         *)
(* Part 1 (Spec, SpecNames, SpecTensor): the "Introduction to Variables"   *)
(* notebook.  A session creates tf.Variable objects, assigns to them and   *)
(* derives tensors from them.  Variables and tensors are backed by buffers *)
(* ("variables are backed by tensors", "assign reuses the existing         *)
(* tensor's memory", "creating new variables from existing variables       *)
(* duplicates the backing tensors").  The operations are the calls the     *)
(* notebook's cells make; TensorFlow itself is not part of the repository, *)
(* so the outcome of a call is the one the cell's text and recorded output *)
(* show.                                                                   *)
(*                                                                         *)
(* Part 2 (SpecTrain): the epoch loop of the "Quickstart for experts"      *)
(* notebook with its four metric accumulators.  The network is abstracted: *)
(* its predictions on a batch are any number of correct ones.              *)
(*                                                                         *)
(* float32 data is kept in fixed point, in units of 1/Scale, so that the   *)
(* int -> float cast of assign is visible in the data.                     *)
(***************************************************************************)
EXTENDS Integers, Sequences, FiniteSets, TLC

VARIABLES variables, tensors, mem, snap, lastOp,
          pc, epoch, batch, train_loss, train_accuracy, test_loss,
          test_accuracy, fed, printed

vars == <<variables, tensors, mem, snap, lastOp,
          pc, epoch, batch, train_loss, train_accuracy, test_loss,
          test_accuracy, fed, printed>>

varsNotebook == <<variables, tensors, mem, snap, lastOp>>
varsTrain == <<pc, epoch, batch, train_loss, train_accuracy, test_loss,
               test_accuracy, fed, printed>>

----------------------------------------------------------------------------
(* Bounds *)

MaxVars == 2
MaxTensors == 1
MaxVal == 1
TrainBatches == 2
TestBatches == 1
BatchSize == 1

(* fixed-point unit of float32 data *)
Scale == 10

----------------------------------------------------------------------------
(* Python values passed to the calls *)

Lit(kind, shape, data) == [kind |-> kind, shape |-> shape, data |-> data]

NoArg == Lit("none", <<>>, <<>>)

(* the values the assign cell passes, plus a float list of the wrong shape *)
Literals ==
  { Lit("int", <<2, 2>>, <<0, 0, 0, 0>>),
    Lit("int", <<2, 2>>, <<1, 1, 1, 1>>),
    Lit("int", <<4>>, <<1, 2, 3, 4>>),
    Lit("float", <<2, 2>>, <<11, 22, 33, 44>>),
    Lit("float", <<4>>, <<11, 22, 33, 44>>) }

(* the argument of a.assign_add, and a list of the wrong shape *)
Deltas ==
  { Lit("int", <<2, 2>>, <<1, 1, 1, 1>>),
    Lit("int", <<4>>, <<1, 2, 3, 4>>) }

(* the initial values of a and b in the assign cell *)
InitialValues ==
  { Lit("int", <<2, 2>>, <<1, 2, 3, 4>>),
    Lit("float", <<2, 2>>, <<11, 22, 33, 44>>) }

(* the name of a variable created without name=..., and the name the     *)
(* naming cell gives                                                      *)
DefaultName == "Variable"

Names == {DefaultName, "my_variable"}

(* [1,4] of the reshape cell, and a shape of the wrong size *)
NewShapes == { <<1, 4>>, <<4>>, <<3>> }

----------------------------------------------------------------------------
(* Shapes and conversion *)

RECURSIVE NumElements(_)
NumElements(shape) ==
  IF shape = <<>> THEN 1 ELSE Head(shape) * NumElements(Tail(shape))

is_compatible_with(shape, other) == shape = other

InferDType(value) == IF value.kind = "int" THEN "int32" ELSE "float32"

convert_to_tensor_NoCast(value, dtype) ==
  IF value.kind = "float" /\ dtype = "int32"
    THEN [ok |-> FALSE, data |-> <<>>]
    ELSE [ok |-> TRUE, data |-> value.data]

convert_to_tensor_Truncating(value, dtype) ==
  IF value.kind = "float" /\ dtype = "int32"
    THEN [ok |-> TRUE,
          data |-> [k \in 1..Len(value.data) |-> value.data[k] \div Scale]]
    ELSE IF value.kind = "int" /\ dtype = "float32"
      THEN [ok |-> TRUE,
            data |-> [k \in 1..Len(value.data) |-> value.data[k] * Scale]]
      ELSE [ok |-> TRUE, data |-> value.data]

(* ops.convert_to_tensor(value, dtype=self.dtype): a Python float does not *)
(* convert to int32 (TypeError); a Python int converts to float32.         *)
convert_to_tensor(value, dtype) ==
  IF value.kind = "float" /\ dtype = "int32"
    THEN [ok |-> FALSE, data |-> <<>>]
    ELSE IF value.kind = "int" /\ dtype = "float32"
      THEN [ok |-> TRUE,
            data |-> [k \in 1..Len(value.data) |-> value.data[k] * Scale]]
      ELSE [ok |-> TRUE, data |-> value.data]

----------------------------------------------------------------------------
(* Results of a call: the new variables, tensors and memory, and the       *)
(* exception raised ("ok" when none).  A variable is its dtype, shape and   *)
(* name and the buffer that backs it; origin is the variable it was        *)
(* created from (0 when created from a value).                             *)

Outcome(vs, ts, m, err) == [variables |-> vs, tensors |-> ts, mem |-> m, err |-> err]

VariableName_Uniquified(vs, name) ==
  IF \E i \in 1..Len(vs) : vs[i].name = name \o ":0"
    THEN name \o "_1:0"
    ELSE name \o ":0"

(* the name a variable reports: a.name is "my_variable:0" *)
VariableName(vs, name) == name \o ":0"

(* tf.Variable(initial_value, name=...) on a Python value *)
Variable(vs, ts, m, value, name) ==
  Outcome(Append(vs, [dtype |-> InferDType(value), shape |-> value.shape,
                      name |-> VariableName(vs, name), buf |-> Len(m) + 1,
                      origin |-> 0]),
          ts, Append(m, value.data), "ok")

VariableFrom_Shared(vs, ts, m, j, name) ==
  Outcome(Append(vs, [dtype |-> vs[j].dtype, shape |-> vs[j].shape,
                      name |-> VariableName(vs, name), buf |-> vs[j].buf,
                      origin |-> j]),
          ts, m, "ok")

(* b = tf.Variable(a): duplicates the backing tensor *)
VariableFrom(vs, ts, m, j, name) ==
  Outcome(Append(vs, [dtype |-> vs[j].dtype, shape |-> vs[j].shape,
                      name |-> VariableName(vs, name), buf |-> Len(m) + 1,
                      origin |-> j]),
          ts, Append(m, m[vs[j].buf]), "ok")

assign_Resizing(vs, ts, m, i, value) ==
  LET c == convert_to_tensor(value, vs[i].dtype) IN
  IF ~c.ok THEN Outcome(vs, ts, m, "TypeError")
  ELSE Outcome([vs EXCEPT ![i].shape = value.shape], ts,
               [m EXCEPT ![vs[i].buf] = c.data], "ok")

assign_Retyping(vs, ts, m, i, value) ==
  IF ~is_compatible_with(vs[i].shape, value.shape)
    THEN Outcome(vs, ts, m, "ValueError")
    ELSE Outcome([vs EXCEPT ![i].dtype = InferDType(value)], ts,
                 [m EXCEPT ![vs[i].buf] = value.data], "ok")

(* a.assign(value): the value is converted to the variable's dtype, then   *)
(* its shape is compared with the variable's shape, then the variable's    *)
(* existing buffer is overwritten.                                         *)
assign(vs, ts, m, i, value) ==
  LET c == convert_to_tensor(value, vs[i].dtype) IN
  IF ~c.ok THEN Outcome(vs, ts, m, "TypeError")
  ELSE IF ~is_compatible_with(vs[i].shape, value.shape)
    THEN Outcome(vs, ts, m, "ValueError")
    ELSE Outcome(vs, ts, [m EXCEPT ![vs[i].buf] = c.data], "ok")

(* a.assign_add(delta) / a.assign_sub(delta); sign is 1 or -1 *)
assign_update(vs, ts, m, i, delta, sign) ==
  LET c == convert_to_tensor(delta, vs[i].dtype)
      old == m[vs[i].buf] IN
  IF ~c.ok THEN Outcome(vs, ts, m, "TypeError")
  ELSE IF vs[i].shape # delta.shape
    THEN Outcome(vs, ts, m, "InvalidArgumentError")
    ELSE Outcome(vs, ts,
                 [m EXCEPT ![vs[i].buf] =
                    [k \in 1..Len(old) |-> old[k] + sign * c.data[k]]],
                 "ok")

assign_add(vs, ts, m, i, delta) == assign_update(vs, ts, m, i, delta, 1)

assign_sub(vs, ts, m, i, delta) == assign_update(vs, ts, m, i, delta, -1)

read_View(vs, ts, m, i) ==
  Outcome(vs, Append(ts, [dtype |-> vs[i].dtype, shape |-> vs[i].shape,
                          buf |-> vs[i].buf, src |-> i]),
          m, "ok")

(* tf.convert_to_tensor(my_variable), my_variable.read_value(): a tensor   *)
(* with the variable's dtype, shape and current value                      *)
read(vs, ts, m, i) ==
  Outcome(vs, Append(ts, [dtype |-> vs[i].dtype, shape |-> vs[i].shape,
                          buf |-> Len(m) + 1, src |-> i]),
          Append(m, m[vs[i].buf]), "ok")

reshape_InPlace(vs, ts, m, i, shape) ==
  IF NumElements(shape) # Len(m[vs[i].buf])
    THEN Outcome(vs, ts, m, "InvalidArgumentError")
    ELSE Outcome([vs EXCEPT ![i].shape = shape],
                 Append(ts, [dtype |-> vs[i].dtype, shape |-> shape,
                             buf |-> Len(m) + 1, src |-> i]),
                 Append(m, m[vs[i].buf]), "ok")

(* tf.reshape(my_variable, shape): "this creates a new tensor; it does not *)
(* reshape the variable"                                                   *)
reshape(vs, ts, m, i, shape) ==
  IF NumElements(shape) # Len(m[vs[i].buf])
    THEN Outcome(vs, ts, m, "InvalidArgumentError")
    ELSE Outcome(vs,
                 Append(ts, [dtype |-> vs[i].dtype, shape |-> shape,
                             buf |-> Len(m) + 1, src |-> i]),
                 Append(m, m[vs[i].buf]), "ok")

(* index of the first largest element of a non-empty sequence, from 0 *)
ArgMaxOf(s) ==
  (CHOOSE k \in 1..Len(s) :
     /\ \A l \in 1..Len(s) : s[l] <= s[k]
     /\ \A l \in 1..(k - 1) : s[l] < s[k]) - 1

(* tf.math.argmax(my_variable): along axis 0, an int64 tensor *)
argmax(vs, ts, m, i) ==
  LET shape == vs[i].shape
      data == m[vs[i].buf]
      rows == IF Len(shape) = 2 THEN shape[1] ELSE Len(data)
      cols == IF Len(shape) = 2 THEN shape[2] ELSE 1
      column(j) == [r \in 1..rows |-> data[(r - 1) * cols + j]]
  IN
  IF Len(shape) = 0 THEN Outcome(vs, ts, m, "InvalidArgumentError")
  ELSE Outcome(vs,
               Append(ts, [dtype |-> "int64", shape |-> Tail(shape),
                           buf |-> Len(m) + 1, src |-> i]),
               Append(m, [j \in 1..cols |-> ArgMaxOf(column(j))]), "ok")

----------------------------------------------------------------------------
(* What a session observes *)

(* a.numpy() *)
numpy(vs, m, i) == m[vs[i].buf]

(* t.numpy() of a tensor *)
TensorValue(ts, m, t) == m[ts[t].buf]

InRange(data, dtype) ==
  LET lim == IF dtype = "float32" THEN MaxVal * Scale ELSE MaxVal IN
  \A k \in 1..Len(data) : data[k] >= -lim /\ data[k] <= lim

----------------------------------------------------------------------------
(* The Variables notebook as a session of calls *)

(* the call made last: its arguments and the exception it raised *)
Call(op, target, src, arg, name, err) ==
  [op |-> op, target |-> target, src |-> src, arg |-> arg, name |-> name,
   err |-> err]

InitNotebook ==
  /\ variables = <<>>
  /\ tensors = <<>>
  /\ mem = <<>>
  /\ snap = <<>>
  /\ lastOp = Call("start", 0, 0, NoArg, "", "ok")

(* the state after a call; snap records the value each tensor had when it  *)
(* was obtained                                                            *)
Apply(out, op, target, src, arg, name) ==
  /\ variables' = out.variables
  /\ tensors' = out.tensors
  /\ mem' = out.mem
  /\ snap' = IF Len(out.tensors) > Len(tensors)
               THEN Append(snap, out.mem[out.tensors[Len(out.tensors)].buf])
               ELSE snap
  /\ lastOp' = Call(op, target, src, arg, name, out.err)
  /\ UNCHANGED varsTrain

(* a = tf.Variable(value) *)
NewVariable ==
  \E value \in InitialValues :
    /\ Len(variables) < MaxVars
    /\ Apply(Variable(variables, tensors, mem, value, DefaultName),
             "Variable", Len(variables) + 1, 0, value, DefaultName)

(* a = tf.Variable(value, name=name) *)
NewNamedVariable ==
  \E value \in InitialValues, name \in Names :
    /\ Len(variables) < MaxVars
    /\ Apply(Variable(variables, tensors, mem, value, name),
             "Variable", Len(variables) + 1, 0, value, name)

(* b = tf.Variable(a) *)
NewVariableFrom ==
  \E j \in 1..Len(variables) :
    /\ Len(variables) < MaxVars
    /\ Apply(VariableFrom(variables, tensors, mem, j, DefaultName),
             "VariableFrom", Len(variables) + 1, j, NoArg, DefaultName)

(* a.assign(value) inside try/except *)
Assign ==
  \E i \in 1..Len(variables), value \in Literals :
    Apply(assign(variables, tensors, mem, i, value), "assign", i, 0, value, "")

(* a.assign_add(delta) *)
AssignAdd ==
  \E i \in 1..Len(variables), delta \in Deltas :
    LET out == assign_add(variables, tensors, mem, i, delta) IN
    /\ InRange(numpy(out.variables, out.mem, i), variables[i].dtype)
    /\ Apply(out, "assign_add", i, 0, delta, "")

(* a.assign_sub(delta) *)
AssignSub ==
  \E i \in 1..Len(variables), delta \in Deltas :
    LET out == assign_sub(variables, tensors, mem, i, delta) IN
    /\ InRange(numpy(out.variables, out.mem, i), variables[i].dtype)
    /\ Apply(out, "assign_sub", i, 0, delta, "")

(* tf.convert_to_tensor(my_variable) / my_variable.read_value() *)
ConvertToTensor ==
  \E i \in 1..Len(variables) :
    /\ Len(tensors) < MaxTensors
    /\ Apply(read(variables, tensors, mem, i), "convert_to_tensor", i, 0, NoArg, "")

(* tf.reshape(my_variable, shape) *)
Reshape ==
  \E i \in 1..Len(variables), shape \in NewShapes :
    /\ Len(tensors) < MaxTensors
    /\ Apply(reshape(variables, tensors, mem, i, shape),
             "reshape", i, 0, Lit("shape", shape, <<>>), "")

(* tf.math.argmax(my_variable) *)
Argmax ==
  \E i \in 1..Len(variables) :
    /\ Len(tensors) < MaxTensors
    /\ Apply(argmax(variables, tensors, mem, i), "argmax", i, 0, NoArg, "")


(* creating, duplicating and assigning variables *)
Next ==
  \/ NewVariable
  \/ NewVariableFrom
  \/ Assign
  \/ AssignAdd
  \/ AssignSub

(* creating variables under chosen names and assigning them *)
NextNames ==
  \/ NewNamedVariable
  \/ Assign
  \/ AssignAdd
  \/ AssignSub

(* my_variable exists; tensors are derived from it while it is assigned *)
InitTensor ==
  /\ lastOp \in { Call("Variable", 1, 0, value, DefaultName, "ok") :
                    value \in InitialValues }
  /\ variables = Variable(<<>>, <<>>, <<>>, lastOp.arg, lastOp.name).variables
  /\ mem = Variable(<<>>, <<>>, <<>>, lastOp.arg, lastOp.name).mem
  /\ tensors = <<>>
  /\ snap = <<>>

NextTensor ==
  \/ Assign
  \/ AssignAdd
  \/ AssignSub
  \/ ConvertToTensor
  \/ Reshape
  \/ Argmax

----------------------------------------------------------------------------
(* The training notebook: metrics and the epoch loop *)

EPOCHS == 5

Metric(total, count) == [total |-> total, count |-> count]

(* a value printed: the quotient num / den *)
Ratio(num, den) == [num |-> num, den |-> den]

SameRatio(r, q) == r.num * q.den = q.num * r.den

(* metric(values): total += sum(values), count += number of values *)
update_state(m, sum, n) == Metric(m.total + sum, m.count + n)

reset_states_Keep(m) == m

(* metric.reset_states() *)
reset_states(m) == Metric(0, 0)

(* metric.result(): total / count, 0 when nothing was fed *)
result(m) == IF m.count = 0 THEN Ratio(0, 1) ELSE Ratio(m.total, m.count)

MetricNames == {"train_loss", "train_accuracy", "test_loss", "test_accuracy"}

(* history of what was fed: over all epochs, and in the epoch `epoch` *)
Fed(all, ep, cur) == [all |-> all, epoch |-> ep, cur |-> cur]

Feed(f, ep, sum, n) ==
  Fed(update_state(f.all, sum, n), ep,
      IF f.epoch = ep THEN update_state(f.cur, sum, n) ELSE Metric(sum, n))

NoLine == [epoch |-> 0,
           loss |-> Ratio(0, 1), accuracy |-> Ratio(0, 1),
           test_loss |-> Ratio(0, 1), test_accuracy |-> Ratio(0, 1)]

InitTrain ==
  /\ pc = "reset"
  /\ epoch = 0
  /\ batch = 0
  /\ train_loss = Metric(0, 0)
  /\ train_accuracy = Metric(0, 0)
  /\ test_loss = Metric(0, 0)
  /\ test_accuracy = Metric(0, 0)
  /\ fed = [n \in MetricNames |-> Fed(Metric(0, 0), 0, Metric(0, 0))]
  /\ printed = NoLine

(* top of the loop body: the four reset calls *)
ResetMetrics ==
  /\ pc = "reset"
  /\ epoch < EPOCHS
  /\ train_loss' = reset_states(train_loss)
  /\ train_accuracy' = reset_states(train_accuracy)
  /\ test_loss' = reset_states(test_loss)
  /\ test_accuracy' = reset_states(test_accuracy)
  /\ batch' = 0
  /\ pc' = "train"
  /\ UNCHANGED <<epoch, fed, printed>>
  /\ UNCHANGED varsNotebook

(* the loss of a batch of which the model classifies `correct` examples   *)
(* correctly, taken as the number it gets wrong                           *)
loss_object(correct) == BatchSize - correct

(* train_step(images, labels) on the next batch of train_ds; the model's  *)
(* predictions are any number of correct ones                             *)
train_step ==
  \E correct \in 0..BatchSize :
    LET loss == loss_object(correct) IN
    /\ pc = "train"
    /\ batch < TrainBatches
    /\ train_loss' = update_state(train_loss, loss, 1)
    /\ train_accuracy' = update_state(train_accuracy, correct, BatchSize)
    /\ fed' = [fed EXCEPT
                 !["train_loss"] = Feed(@, epoch + 1, loss, 1),
                 !["train_accuracy"] = Feed(@, epoch + 1, correct, BatchSize)]
    /\ batch' = IF batch + 1 = TrainBatches THEN 0 ELSE batch + 1
    /\ pc' = IF batch + 1 = TrainBatches THEN "test" ELSE "train"
    /\ UNCHANGED <<epoch, test_loss, test_accuracy, printed>>
    /\ UNCHANGED varsNotebook

(* test_step(test_images, test_labels) on the next batch of test_ds *)
test_step ==
  \E correct \in 0..BatchSize :
    LET t_loss == loss_object(correct) IN
    /\ pc = "test"
    /\ batch < TestBatches
    /\ test_loss' = update_state(test_loss, t_loss, 1)
    /\ test_accuracy' = update_state(test_accuracy, correct, BatchSize)
    /\ fed' = [fed EXCEPT
                 !["test_loss"] = Feed(@, epoch + 1, t_loss, 1),
                 !["test_accuracy"] = Feed(@, epoch + 1, correct, BatchSize)]
    /\ batch' = IF batch + 1 = TestBatches THEN 0 ELSE batch + 1
    /\ pc' = IF batch + 1 = TestBatches THEN "print" ELSE "test"
    /\ UNCHANGED <<epoch, train_loss, train_accuracy, printed>>
    /\ UNCHANGED varsNotebook

(* the print at the end of the loop body, then the next epoch *)
PrintEpoch ==
  /\ pc = "print"
  /\ printed' = [epoch |-> epoch + 1,
                 loss |-> result(train_loss),
                 accuracy |-> Ratio(result(train_accuracy).num * 100,
                                    result(train_accuracy).den),
                 test_loss |-> result(test_loss),
                 test_accuracy |-> Ratio(result(test_accuracy).num * 100,
                                         result(test_accuracy).den)]
  /\ epoch' = epoch + 1
  /\ pc' = IF epoch + 1 < EPOCHS THEN "reset" ELSE "done"
  /\ UNCHANGED <<batch, train_loss, train_accuracy, test_loss, test_accuracy, fed>>
  /\ UNCHANGED varsNotebook

NextTrain ==
  \/ ResetMetrics
  \/ train_step
  \/ test_step
  \/ PrintEpoch

----------------------------------------------------------------------------
(* Specifications *)

Init == InitNotebook /\ InitTrain

Spec == Init /\ [][Next]_vars

InitSession == InitTensor /\ InitTrain

SpecTensor == InitSession /\ [][NextTensor]_vars

SpecNames == Init /\ [][NextNames]_vars

SpecTrain == Init /\ [][NextTrain]_vars

----------------------------------------------------------------------------
(* Properties *)

AssignOps == {"assign", "assign_add", "assign_sub"}

TensorOps == {"convert_to_tensor", "reshape", "argmax"}

Vars == 1..Len(variables)

(* variable i is, after the step, exactly what it was before it *)
Untouched(i) ==
  /\ variables'[i].dtype = variables[i].dtype
  /\ variables'[i].shape = variables[i].shape
  /\ numpy(variables', mem', i) = numpy(variables, mem, i)

(* the step is the call a.assign(value) on variable i *)
AssignedTo(i) == lastOp'.op = "assign" /\ lastOp'.target = i

(* a Python float does not convert to int32 *)
Unconvertible(value, dtype) == value.kind = "float" /\ dtype = "int32"

(* the data of a Python value as a tensor of the given dtype *)
AsDType(value, dtype) ==
  IF value.kind = "int" /\ dtype = "float32"
    THEN [k \in 1..Len(value.data) |-> value.data[k] * Scale]
    ELSE value.data

C2_DTypeMismatchRaises ==
  [][\A i \in Vars :
       (AssignedTo(i) /\ variables[i].dtype = "int32"
          /\ lastOp'.arg.kind = "float")
         => (lastOp'.err = "TypeError" /\ Untouched(i))]_vars

(* C2 witness: a.assign([[1.1, 2.2], [3.3, 4.4]]) on an int32 variable has *)
(* raised                                                                  *)
C2_Witness ==
  /\ lastOp.op = "assign"
  /\ lastOp.err = "TypeError"
  /\ lastOp.arg.kind = "float"
  /\ variables[lastOp.target].dtype = "int32"

(* C3: a variable is created with the dtype and shape of its initial       *)
(* value, and no call, successful or failing, changes either.              *)
C3_DTypeAndShapeFixed ==
  [][/\ \A i \in Vars :
          /\ variables'[i].dtype = variables[i].dtype
          /\ variables'[i].shape = variables[i].shape
     /\ lastOp'.op = "Variable"
          => /\ variables'[lastOp'.target].dtype =
                  (IF lastOp'.arg.kind = "int" THEN "int32" ELSE "float32")
             /\ variables'[lastOp'.target].shape = lastOp'.arg.shape]_vars

(* C3 witness: a successful assign has changed the value of a variable     *)
(* whose dtype differs from the assigned value's                           *)
C3_Witness ==
  /\ lastOp.op = "assign"
  /\ lastOp.err = "ok"
  /\ lastOp.arg.kind = "int"
  /\ variables[lastOp.target].dtype = "float32"
  /\ \E i \in Vars : i # lastOp.target /\ variables[i].dtype = "int32"

(* C4: b = tf.Variable(a) gives b the value of a, and afterwards an        *)
(* assign to either of the two leaves the value of the other unchanged.    *)
C4_CopyIsIndependent ==
  [][/\ lastOp'.op = "VariableFrom"
          => numpy(variables', mem', lastOp'.target)
               = numpy(variables, mem, lastOp'.src)
     /\ \A i, j \in Vars :
          (/\ variables[j].origin = i \/ variables[i].origin = j
           /\ lastOp'.op \in AssignOps
           /\ lastOp'.target = i)
            => numpy(variables', mem', j) = numpy(variables, mem, j)]_vars

(* C4 witness: after an assign, a variable and its copy hold different     *)
(* values                                                                  *)
C4_Witness ==
  /\ lastOp.op \in AssignOps
  /\ lastOp.err = "ok"
  /\ \E j \in Vars :
       /\ variables[j].origin # 0
       /\ lastOp.target \in {j, variables[j].origin}
       /\ numpy(variables, mem, j) # numpy(variables, mem, variables[j].origin)

(* C6: tf.reshape, tf.convert_to_tensor and tf.math.argmax of a variable   *)
(* leave every variable's dtype, shape and value as they were, and a       *)
(* successful call yields one new tensor that shares no buffer with a      *)
(* variable.                                                               *)
C6_TensorOpsLeaveVariable ==
  [][lastOp'.op \in TensorOps
       => /\ Len(variables') = Len(variables)
          /\ \A i \in Vars : Untouched(i)
          /\ lastOp'.err = "ok"
               => /\ Len(tensors') = Len(tensors) + 1
                  /\ \A i \in Vars :
                       tensors'[Len(tensors')].buf # variables'[i].buf]_vars

(* C6 witness: tf.reshape(my_variable, [1, 4]) has returned a (1, 4)       *)
(* tensor of a (2, 2) variable                                             *)
C6_Witness ==
  /\ lastOp.op = "reshape"
  /\ lastOp.err = "ok"
  /\ tensors[Len(tensors)].shape = <<1, 4>>
  /\ variables[lastOp.target].shape = <<2, 2>>

(* C7: an assign of integers of the variable's shape to a float32 variable *)
(* succeeds; the variable then holds the integers as floats and is still   *)
(* float32.                                                                *)
C7_CastableAssignSucceeds ==
  [][\A i \in Vars :
       (AssignedTo(i) /\ variables[i].dtype = "float32"
          /\ lastOp'.arg.kind = "int"
          /\ lastOp'.arg.shape = variables[i].shape)
         => /\ lastOp'.err = "ok"
            /\ numpy(variables', mem', i)
                 = [k \in 1..Len(lastOp'.arg.data) |-> lastOp'.arg.data[k] * Scale]
            /\ variables'[i].dtype = "float32"]_vars

(* C7 witness: b.assign of integer ones on a float32 variable has          *)
(* succeeded                                                               *)
C7_Witness ==
  /\ lastOp.op = "assign"
  /\ lastOp.err = "ok"
  /\ lastOp.arg = Lit("int", <<2, 2>>, <<1, 1, 1, 1>>)
  /\ variables[lastOp.target].dtype = "float32"
  /\ numpy(variables, mem, lastOp.target) = <<10, 10, 10, 10>>

(* C8: tf.Variable(value, name=n) succeeds and the variable reports n:0    *)
(* whether or not another variable has that name; two variables of the     *)
(* same name have different buffers, and an assign to one leaves the value *)
(* of the other unchanged.                                                 *)
C8_SameNameDistinct ==
  [][/\ lastOp'.op = "Variable"
          => /\ lastOp'.err = "ok"
             /\ Len(variables') = Len(variables) + 1
             /\ variables'[lastOp'.target].name = lastOp'.name \o ":0"
     /\ \A i, j \in 1..Len(variables') :
          (i # j /\ variables'[i].name = variables'[j].name)
            => variables'[i].buf # variables'[j].buf
     /\ \A i, j \in Vars :
          (/\ i # j
           /\ variables[i].name = variables[j].name
           /\ lastOp'.op \in AssignOps
           /\ lastOp'.target = i)
            => numpy(variables', mem', j) = numpy(variables, mem, j)]_vars

(* C8 witness: two variables named my_variable:0 hold different values     *)
(* after an assign to one of them                                          *)
C8_Witness ==
  /\ lastOp.op \in AssignOps
  /\ lastOp.err = "ok"
  /\ \E i, j \in Vars :
       /\ i # j
       /\ lastOp.target = i
       /\ variables[i].name = "my_variable:0"
       /\ variables[j].name = "my_variable:0"
       /\ variables[i].origin = 0
       /\ variables[j].origin = 0
       /\ numpy(variables, mem, i) # numpy(variables, mem, j)

(* C9: every tensor obtained from a variable holds the value it had when   *)
(* it was obtained, whatever was assigned to the variable since; the       *)
(* variable reads back the value of a successful assign, the old value     *)
(* plus or minus the delta of a successful assign_add or assign_sub, and   *)
(* its old value after a failing call.                                     *)
C9_TensorKeepsValue ==
  [][/\ \A t \in 1..Len(tensors') : TensorValue(tensors', mem', t) = snap'[t]
     /\ \A i \in Vars :
          (lastOp'.op \in AssignOps /\ lastOp'.target = i)
            => LET old == numpy(variables, mem, i)
                   new == numpy(variables', mem', i)
                   val == AsDType(lastOp'.arg, variables[i].dtype)
               IN  IF lastOp'.err # "ok" THEN new = old
                   ELSE IF lastOp'.op = "assign" THEN new = val
                   ELSE IF lastOp'.op = "assign_add"
                     THEN new = [k \in 1..Len(old) |-> old[k] + val[k]]
                     ELSE new = [k \in 1..Len(old) |-> old[k] - val[k]]]_vars

(* C9 witness: a tensor read from a variable differs from the variable's   *)
(* value after a successful assign                                         *)
C9_Witness ==
  /\ lastOp.op = "assign"
  /\ lastOp.err = "ok"
  /\ \E t \in 1..Len(tensors) :
       /\ tensors[t].src = lastOp.target
       /\ tensors[t].shape = variables[lastOp.target].shape
       /\ tensors[t].dtype = variables[lastOp.target].dtype
       /\ TensorValue(tensors, mem, t) # numpy(variables, mem, lastOp.target)

(* the line of an epoch has just been printed *)
JustPrinted == pc \in {"reset", "done"} /\ epoch >= 1 /\ printed.epoch = epoch

Mean(m) == Ratio(m.total, m.count)

Percent(r) == Ratio(r.num * 100, r.den)

====
